---- MODULE Spec2Model ----
(***************************************************************************)
(* Model of the router's Tree / segment engine                             *)
(* (modules/@angular/router/src/segments.ts) and of the link() URL-tree    *)
(* transformation exercised by modules/@angular/router/test/link_spec.ts.  *)
(*                                                                         *)
(* JavaScript values are tagged records so that values of different        *)
(* runtime types can be compared:                                          *)
(*   Null, Str(<<chars>>), Num(n), Bool(b), Arr(<<values>>), Map(<<k,v>>)  *)
(* Objects (UrlSegment, RouteSegment, Tree) carry an id field, which is    *)
(* their reference identity (===).  A string is a sequence of one-letter   *)
(* strings, so that splitting, prefix tests and serialization are          *)
(* computed and not assumed.                                               *)
(***************************************************************************)
EXTENDS Integers, Sequences, FiniteSets, TLC

VARIABLES urlTree, routeTree, call, result, directive, pending, history

vars == <<urlTree, routeTree, call, result, directive, pending, history>>

----------------------------------------------------------------------------
(* JavaScript values *)

Null == [t |-> "null"]
Str(s) == [t |-> "str", v |-> s]
Num(n) == [t |-> "num", v |-> n]
Bool(b) == [t |-> "bool", v |-> b]
Arr(s) == [t |-> "arr", v |-> s]
Map(pairs) == [t |-> "map", v |-> pairs]
Throw == [t |-> "throw"]

IsObject(x) == "id" \in DOMAIN x
HasTag(x, tag) == ("t" \in DOMAIN x) /\ x.t = tag

\* facade/lang isBlank / isPresent / isString / isStringMap
isBlank(x) == HasTag(x, "null")
isPresent(x) == ~isBlank(x)
isString(x) == HasTag(x, "str")
isStringMap(x) == HasTag(x, "map")

\* the decimal digits of a number, as JavaScript's String(n) writes them
Digit(d) == <<"0", "1", "2", "3", "4", "5", "6", "7", "8", "9">>[d + 1]

RECURSIVE Digits(_)
Digits(n) == IF n < 10 THEN <<Digit(n)>> ELSE Digits(n \div 10) \o <<Digit(n % 10)>>

\* a string form that keeps only the last digit of a number
stringify_lastDigit(x) ==
  IF HasTag(x, "str") THEN x.v
  ELSE IF HasTag(x, "num") THEN <<Digit(x.v % 10)>>
  ELSE IF HasTag(x, "null") THEN <<"n", "u", "l", "l">>
  ELSE <<"?">>

\* `${x}` : the string form of a primitive
stringify(x) ==
  IF HasTag(x, "str") THEN x.v
  ELSE IF HasTag(x, "num") THEN Digits(x.v)
  ELSE IF HasTag(x, "null") THEN <<"n", "u", "l", "l">>
  ELSE <<"?">>

\* a === b
StrictEq(a, b) ==
  IF IsObject(a) /\ IsObject(b) THEN a.id = b.id
  ELSE IF IsObject(a) \/ IsObject(b) THEN FALSE
  ELSE a.t = b.t /\ (a.t = "null" \/ a.v = b.v)

\* a == b on primitives: null equals only null, a number equals
\* the string that spells it
LooseEq(a, b) ==
  IF IsObject(a) \/ IsObject(b) THEN StrictEq(a, b)
  ELSE IF a.t = b.t THEN StrictEq(a, b)
  ELSE IF a.t = "null" \/ b.t = "null" THEN FALSE
  ELSE IF {a.t, b.t} = {"str", "num"} THEN stringify(a) = stringify(b)
  ELSE FALSE

----------------------------------------------------------------------------
(* String maps: an object literal is the sequence of its key/value pairs   *)
(* in insertion order.                                                     *)

EmptyMap == Map(<<>>)

MapKeys(m) == {m.v[i].k : i \in 1..Len(m.v)}
MapHas(m, k) == \E i \in 1..Len(m.v) : m.v[i].k = k
MapGet(m, k) == m.v[CHOOSE i \in 1..Len(m.v) : m.v[i].k = k].v

\* StringMapWrapper.equals: same number of keys and m1[key] === m2[key] for
\* every key of m1.  An absent map equals only an absent map.
StringMapWrapper_equals(m1, m2) ==
  IF isBlank(m1) \/ isBlank(m2) THEN isBlank(m1) /\ isBlank(m2)
  ELSE /\ Len(m1.v) = Len(m2.v)
       /\ \A k \in MapKeys(m1) : MapHas(m2, k) /\ StrictEq(MapGet(m1, k), MapGet(m2, k))

----------------------------------------------------------------------------
(* segments.ts: UrlSegment, RouteSegment, TreeNode, Tree *)

UrlSegment(id, segment, parameters, outlet) ==
  [kind |-> "UrlSegment", id |-> id, segment |-> segment,
   parameters |-> parameters, outlet |-> outlet]

RouteSegment(id, urlSegments, parameters, outlet, type, componentFactory) ==
  [kind |-> "RouteSegment", id |-> id, urlSegments |-> urlSegments,
   parameters |-> parameters, outlet |-> outlet, type |-> type,
   componentFactory |-> componentFactory]

TreeNode(value, children) == [value |-> value, children |-> children]

Tree(id, root) == [kind |-> "Tree", id |-> id, root |-> root]

IsRouteSegment(x) == IsObject(x) /\ x.kind = "RouteSegment"
IsUrlSegment(x) == IsObject(x) /\ x.kind = "UrlSegment"

\* equalSegments raises a TypeError when it reads a field of null
equalSegmentsThrows(a, b) == isBlank(a) /\ isBlank(b)

\* a comparison that also requires the same URL segments
equalSegments_withUrlSegments(a, b) ==
  IF isBlank(a) /\ ~isBlank(b) THEN FALSE
  ELSE IF ~isBlank(a) /\ isBlank(b) THEN FALSE
  ELSE IF ~StrictEq(a.type, b.type) THEN FALSE
  ELSE IF ~LooseEq(a.outlet, b.outlet) THEN FALSE
  ELSE IF a.urlSegments # b.urlSegments THEN FALSE
  ELSE StringMapWrapper_equals(a.parameters, b.parameters)

equalSegments(a, b) ==
  IF isBlank(a) /\ ~isBlank(b) THEN FALSE
  ELSE IF ~isBlank(a) /\ isBlank(b) THEN FALSE
  ELSE IF ~StrictEq(a.type, b.type) THEN FALSE
  ELSE IF ~LooseEq(a.outlet, b.outlet) THEN FALSE
  ELSE StringMapWrapper_equals(a.parameters, b.parameters)

equalUrlSegmentsThrows(a, b) == isBlank(a) /\ isBlank(b)

\* a comparison that leaves the outlet out
equalUrlSegments_noOutlet(a, b) ==
  IF isBlank(a) /\ ~isBlank(b) THEN FALSE
  ELSE IF ~isBlank(a) /\ isBlank(b) THEN FALSE
  ELSE IF ~LooseEq(a.segment, b.segment) THEN FALSE
  ELSE StringMapWrapper_equals(a.parameters, b.parameters)

equalUrlSegments(a, b) ==
  IF isBlank(a) /\ ~isBlank(b) THEN FALSE
  ELSE IF ~isBlank(a) /\ isBlank(b) THEN FALSE
  ELSE IF ~LooseEq(a.segment, b.segment) THEN FALSE
  ELSE IF ~LooseEq(a.outlet, b.outlet) THEN FALSE
  ELSE StringMapWrapper_equals(a.parameters, b.parameters)

_equalValues(a, b) ==
  IF IsRouteSegment(a) THEN equalSegments(a, b)
  ELSE IF IsUrlSegment(a) THEN equalUrlSegments(a, b)
  ELSE StrictEq(a, b)

RECURSIVE _findNode(_, _), _findNodeIn(_, _, _)
_findNode(expected, c) ==
  IF IsRouteSegment(expected) /\ equalSegments(expected, c.value) THEN c
  ELSE IF StrictEq(expected, c.value) THEN c
  ELSE _findNodeIn(expected, c.children, 1)

\* the loop over c.children of _findNode
_findNodeIn(expected, cs, i) ==
  IF i > Len(cs) THEN Null
  ELSE LET r == _findNode(expected, cs[i])
       IN IF isPresent(r) THEN r ELSE _findNodeIn(expected, cs, i + 1)

RECURSIVE _findPath(_, _, _), _findPathIn(_, _, _, _)
\* a search that compares by identity only
_findPath_identity(expected, c, collected) ==
  LET pushed == Append(collected, c)
  IN IF StrictEq(expected, c.value) THEN Arr(pushed)
     ELSE _findPathIn(expected, c.children, pushed, 1)

\* returns Arr(nodes from the root to the match) or Null
_findPath(expected, c, collected) ==
  LET pushed == Append(collected, c)
  IN IF _equalValues(expected, c.value) THEN Arr(pushed)
     ELSE _findPathIn(expected, c.children, pushed, 1)

\* the loop over c.children of _findPath; each child gets a clone of collected
_findPathIn(expected, cs, collected, i) ==
  IF i > Len(cs) THEN Null
  ELSE LET r == _findPath(expected, cs[i], collected)
       IN IF isPresent(r) THEN r ELSE _findPathIn(expected, cs, collected, i + 1)

\* tree.children.filter(child => _equalValues(child.value, v))
FilterEqual(cs, v) == SelectSeq(cs, LAMBDA child : _equalValues(child.value, v))

RECURSIVE _contains(_, _), _containsFrom(_, _, _)
_contains(tree, subtree) ==
  IF ~_equalValues(tree.value, subtree.value) THEN FALSE
  ELSE _containsFrom(tree, subtree.children, 1)

\* a loop that descends into the tree node itself and not into its
\* matching child
_containsFrom_sameNode(tree, subs, i) ==
  IF i > Len(subs) THEN TRUE
  ELSE LET s == FilterEqual(tree.children, subs[i].value)
       IN IF Len(s) = 0 THEN FALSE
          ELSE IF ~_contains(tree, subs[i]) THEN FALSE
          ELSE _containsFrom(tree, subs, i + 1)

\* a loop that matches the children by position and not by value
_containsFrom_positional(tree, subs, i) ==
  IF i > Len(subs) THEN TRUE
  ELSE IF i > Len(tree.children) THEN FALSE
  ELSE IF ~_contains(tree.children[i], subs[i]) THEN FALSE
  ELSE _containsFrom(tree, subs, i + 1)

\* the loop over subtree.children of _contains
_containsFrom(tree, subs, i) ==
  IF i > Len(subs) THEN TRUE
  ELSE LET s == FilterEqual(tree.children, subs[i].value)
       IN IF Len(s) = 0 THEN FALSE
          ELSE IF ~_contains(s[1], subs[i]) THEN FALSE
          ELSE _containsFrom(tree, subs, i + 1)

NodeValues(nodes) == [i \in 1..Len(nodes) |-> nodes[i].value]

\* Tree methods.  Each yields a JavaScript value, or Throw when the
\* method raises a TypeError.
Tree_root(tree) == tree.root.value

\* _findPath(...).map(...) dereferences the null that _findPath returns
\* when nothing matches
Tree_pathFromRoot(tree, t) ==
  LET r == _findPath(t, tree.root, <<>>)
  IN IF isBlank(r) THEN Throw ELSE Arr(NodeValues(r.v))

\* a parent that is the first value of the path
Tree_parent_first(tree, t) ==
  LET p == Tree_pathFromRoot(tree, t)
  IN IF p = Throw THEN Throw
     ELSE IF Len(p.v) > 1 THEN p.v[1] ELSE Null

Tree_parent(tree, t) ==
  LET p == Tree_pathFromRoot(tree, t)
  IN IF p = Throw THEN Throw
     ELSE IF Len(p.v) > 1 THEN p.v[Len(p.v) - 1] ELSE Null

Tree_children(tree, t) ==
  LET n == _findNode(t, tree.root)
  IN IF isPresent(n) THEN Arr(NodeValues(n.children)) ELSE Null

Tree_firstChild(tree, t) ==
  LET n == _findNode(t, tree.root)
  IN IF isPresent(n) /\ Len(n.children) > 0 THEN n.children[1].value ELSE Null

Tree_contains(tree, other) == Bool(_contains(tree.root, other.root))

rootNode(tree) == tree.root

\* UrlSegment.toString and _serializeParams
RECURSIVE SerializePairs(_, _)
SerializePairs(pairs, i) ==
  IF i > Len(pairs) THEN <<>>
  ELSE <<";">> \o pairs[i].k \o <<"=">> \o stringify(pairs[i].v) \o SerializePairs(pairs, i + 1)

\* a serialization that stops after the first parameter
_serializeParams_firstOnly(params) ==
  IF isBlank(params) \/ Len(params.v) = 0 THEN <<>>
  ELSE SerializePairs(SubSeq(params.v, 1, 1), 1)

_serializeParams(params) == IF isBlank(params) THEN <<>> ELSE SerializePairs(params.v, 1)

\* a toString that leaves the outlet out
UrlSegment_toString_noOutlet(u) ==
  stringify(u.segment) \o _serializeParams(u.parameters)

\* a toString that writes the outlet prefix also for the primary outlet
UrlSegment_toString_alwaysOutlet(u) ==
  stringify(u.outlet) \o <<":">> \o stringify(u.segment) \o _serializeParams(u.parameters)

UrlSegment_toString(u) ==
  LET outletPrefix == IF isBlank(u.outlet) THEN <<>> ELSE stringify(u.outlet) \o <<":">>
  IN outletPrefix \o stringify(u.segment) \o _serializeParams(u.parameters)

----------------------------------------------------------------------------
(* router_url_serializer.ts: DefaultRouterUrlSerializer.serialize.  The    *)
(* first child of a node is its primary route; the other children are      *)
(* rendered in parentheses after it.                                       *)

RECURSIVE _serializeUrlTreeNode(_), _serializeUrlTreeNodes(_), _serializeAux(_, _)
_serializeChildren(node) ==
  IF Len(node.children) > 0 THEN <<"/">> \o _serializeUrlTreeNodes(node.children) ELSE <<>>

_serializeUrlTreeNode(node) == UrlSegment_toString(node.value) \o _serializeChildren(node)

\* auxNodes.map(_serializeUrlTreeNode).join(",")
_serializeAux(nodes, i) ==
  IF i > Len(nodes) THEN <<>>
  ELSE (IF i > 2 THEN <<",">> ELSE <<>>) \o _serializeUrlTreeNode(nodes[i]) \o _serializeAux(nodes, i + 1)

_serializeUrlTreeNodes(nodes) ==
  LET main == UrlSegment_toString(nodes[1].value)
      aux == IF Len(nodes) > 1 THEN <<"(">> \o _serializeAux(nodes, 2) \o <<")">> ELSE <<>>
  IN main \o aux \o _serializeChildren(nodes[1])

serialize(tree) == _serializeUrlTreeNode(rootNode(tree))

----------------------------------------------------------------------------
(* link.ts *)

\* s.split(sep): the pieces of s between the occurrences of the letter sep
RECURSIVE SplitFrom(_, _, _, _)
SplitFrom(s, sep, i, cur) ==
  IF i > Len(s) THEN <<cur>>
  ELSE IF s[i] = sep THEN <<cur>> \o SplitFrom(s, sep, i + 1, <<>>)
  ELSE SplitFrom(s, sep, i + 1, Append(cur, s[i]))

Split(s, sep) == SplitFrom(s, sep, 1, <<>>)

\* the parts of one string command that become commands of their own
RECURSIVE _normalizeParts(_, _, _)
_normalizeParts(parts, first, j) ==
  IF j > Len(parts) THEN <<>>
  ELSE LET cc == parts[j]
           keep == IF first /\ j = 1 /\ (cc = <<".">> \/ cc = <<>>) THEN FALSE ELSE cc # <<>>
       IN (IF keep THEN <<Str(cc)>> ELSE <<>>) \o _normalizeParts(parts, first, j + 1)

RECURSIVE _normalizeFrom(_, _)
_normalizeFrom(commands, i) ==
  IF i > Len(commands) THEN <<>>
  ELSE LET c == commands[i]
       IN (IF ~isString(c) THEN <<c>> ELSE _normalizeParts(Split(c.v, "/"), i = 1, 1))
          \o _normalizeFrom(commands, i + 1)

IsRootCommand(commands) ==
  Len(commands) = 1 /\ isString(commands[1]) /\ commands[1].v = <<"/">>

\* a normalization that takes a leading "." for a leading "/"
_normalizeCommands_dotIsAbsolute(commands) ==
  IF IsRootCommand(commands) THEN [isAbsolute |-> TRUE, commands |-> commands]
  ELSE [isAbsolute |-> isString(commands[1]) /\ Len(commands[1].v) > 0
                         /\ commands[1].v[1] \in {"/", "."},
        commands |-> _normalizeFrom(commands, 1)]

\* a command list is absolute when its first command is a string that
\* begins with "/"
_normalizeCommands(commands) ==
  IF IsRootCommand(commands) THEN [isAbsolute |-> TRUE, commands |-> commands]
  ELSE [isAbsolute |-> isString(commands[1]) /\ Len(commands[1].v) > 0 /\ commands[1].v[1] = "/",
        commands |-> _normalizeFrom(commands, 1)]

_navigateToRoot(normalized) == normalized.isAbsolute /\ IsRootCommand(normalized.commands)

\* the outlet named by the first command ("aux:d" names aux), else null
_outlet(commands) ==
  IF ~isString(commands[1]) THEN Null
  ELSE LET parts == Split(commands[1].v, ":")
       IN IF Len(parts) > 1 THEN Str(parts[1]) ELSE Null

\* the path token of the first command; a positional value is stringified
_segment(commands) ==
  IF isStringMap(commands[1]) THEN commands[1]
  ELSE IF ~isString(commands[1]) THEN Str(stringify(commands[1]))
  ELSE LET parts == Split(commands[1].v, ":")
       IN IF Len(parts) > 1 THEN Str(parts[2]) ELSE Str(parts[1])

\* matrix parameters are written as strings
RECURSIVE _stringifyPairs(_, _)
_stringifyPairs(pairs, i) ==
  IF i > Len(pairs) THEN <<>>
  ELSE <<[k |-> pairs[i].k, v |-> Str(stringify(pairs[i].v))]>> \o _stringifyPairs(pairs, i + 1)

_stringify(params) == Map(_stringifyPairs(params.v, 1))

\* existing parameters updated by a parameter object: a key of the object
\* takes the object's value, the other existing keys keep theirs, new keys
\* are added after them
_mergeParams(existing, params) ==
  LET old == IF isBlank(existing) THEN <<>> ELSE existing.v
      upd == [i \in 1..Len(old) |->
                IF MapHas(params, old[i].k) THEN [k |-> old[i].k, v |-> MapGet(params, old[i].k)]
                ELSE old[i]]
      new == SelectSeq(params.v, LAMBDA p : ~MapHas(Map(old), p.k))
  IN Map(upd \o new)

\* a UrlSegment that link creates; its identity is assigned when the new
\* tree is complete (AllocateIds)
NewUrlSegment(segment, parameters, outlet) == UrlSegment(0, segment, parameters, outlet)

RECURSIVE _update(_, _), _updateMany(_, _)

_recurse(urlSegment, node, rest) ==
  IF Len(rest) = 0 THEN TreeNode(urlSegment, <<>>)
  ELSE TreeNode(urlSegment,
                _updateMany(IF isBlank(node) THEN <<>> ELSE node.children, rest))

\* the node that replaces `node` (null past the end of the tree) when the
\* commands are applied at its position
_update(node, commands) ==
  LET rest == Tail(commands)
      next == IF Len(rest) = 0 THEN Null ELSE rest[1]
      outlet == _outlet(commands)
      segment == _segment(commands)
  IN IF isBlank(node) /\ ~isStringMap(next)
       THEN _recurse(NewUrlSegment(segment, EmptyMap, outlet), node, rest)
     ELSE IF isBlank(node)
       THEN _recurse(NewUrlSegment(segment, _stringify(next), outlet), node, Tail(rest))
     \* different outlet: the subtree is kept
     ELSE IF ~LooseEq(outlet, node.value.outlet) THEN node
     \* a parameter object with no path token before it updates the node
     ELSE IF isStringMap(segment)
       THEN _recurse(NewUrlSegment(node.value.segment,
                                   _mergeParams(node.value.parameters, _stringify(segment)),
                                   node.value.outlet), node, rest)
     \* the token names the segment already there: its parameters are merged
     ELSE IF isStringMap(next) /\ LooseEq(segment, node.value.segment)
       THEN _recurse(NewUrlSegment(segment,
                                   _mergeParams(node.value.parameters, _stringify(next)),
                                   outlet), node, Tail(rest))
     ELSE IF isStringMap(next)
       THEN _recurse(NewUrlSegment(segment, _stringify(next), outlet), node, Tail(rest))
     ELSE _recurse(NewUrlSegment(segment, EmptyMap, outlet), node, rest)

\* among sibling nodes, the one in the commands' outlet is updated and the
\* others are kept; with no node in that outlet a new one is added
_updateMany(nodes, commands) ==
  LET outlet == _outlet(commands)
      right == {i \in 1..Len(nodes) : LooseEq(nodes[i].value.outlet, outlet)}
  IN IF right # {}
       THEN LET k == CHOOSE i \in right : \A j \in right : i <= j
            IN [nodes EXCEPT ![k] = _update(nodes[k], commands)]
     ELSE Append(nodes, _update(Null, commands))

\* the nearest RouteSegment, from s upwards, that has URL segments
RECURSIVE _findSegmentWithUrl(_, _)
_findSegmentWithUrl(s, routeT) ==
  IF isBlank(s) \/ s = Throw THEN Throw
  ELSE IF Len(s.urlSegments) > 0 THEN s
  ELSE _findSegmentWithUrl(Tree_parent(routeT, s), routeT)

_findUrlSegment(segment, routeT) ==
  LET s == _findSegmentWithUrl(segment, routeT)
  IN IF s = Throw THEN Throw ELSE s.urlSegments[Len(s.urlSegments)]

\* the node of the URL tree the commands are applied under
_findStartingNode(normalized, urlT, segment, routeT) ==
  IF normalized.isAbsolute THEN rootNode(urlT)
  ELSE LET urlSegment == _findUrlSegment(segment, routeT)
       IN IF urlSegment = Throw THEN Throw
          ELSE LET path == _findPath(urlSegment, rootNode(urlT), <<>>)
               IN IF isBlank(path) THEN Null ELSE path.v[Len(path.v)]

RECURSIVE _constructNewTree(_, _, _)
_constructNewTree(node, original, updated) ==
  IF node = original THEN TreeNode(node.value, updated)
  ELSE TreeNode(node.value,
                [i \in 1..Len(node.children) |->
                   _constructNewTree(node.children[i], original, updated)])

\* new UrlSegment(...): the created segments get the identities next,
\* next + 1, ... in pre-order
RECURSIVE AllocateIds(_, _), AllocateIdsIn(_, _)
AllocateIds(node, next) ==
  LET isNew == node.value.id = 0
      r == AllocateIdsIn(node.children, IF isNew THEN next + 1 ELSE next)
  IN [node |-> TreeNode(IF isNew THEN [node.value EXCEPT !.id = next] ELSE node.value, r.nodes),
      next |-> r.next]

AllocateIdsIn(nodes, next) ==
  IF Len(nodes) = 0 THEN [nodes |-> <<>>, next |-> next]
  ELSE LET h == AllocateIds(nodes[1], next)
           t == AllocateIdsIn(Tail(nodes), h.next)
       IN [nodes |-> <<h.node>> \o t.nodes, next |-> t.next]

\* new UrlTree(root): a tree object with a fresh identity
NewUrlTree(root, freshId) == Tree(freshId, AllocateIds(root, freshId + 1).node)

\* the commands of a non-empty list applied to the URL tree
_applyCommands(segment, routeT, urlT, commands, freshId) ==
  LET normalized == _normalizeCommands(commands)
  IN IF _navigateToRoot(normalized)
       THEN NewUrlTree(TreeNode(Tree_root(urlT), <<>>), freshId)
     ELSE LET startingNode == _findStartingNode(normalized, urlT, segment, routeT)
          IN IF startingNode = Throw \/ isBlank(startingNode) THEN Throw
             ELSE LET updated == IF Len(normalized.commands) > 0
                                   THEN _updateMany(startingNode.children, normalized.commands)
                                 ELSE <<>>
                  IN NewUrlTree(_constructNewTree(rootNode(urlT), startingNode, updated),
                                freshId)

\* a link that rebuilds the tree even when there is nothing to apply
link_rebuilds(segment, routeT, urlT, commands, freshId) ==
  IF Len(commands) = 0 THEN NewUrlTree(rootNode(urlT), freshId)
  ELSE _applyCommands(segment, routeT, urlT, commands, freshId)

\* link(segment, routeTree, urlTree, commands); freshId is the first
\* identity not in use.  Yields the new UrlTree, or Throw.
link(segment, routeT, urlT, commands, freshId) ==
  IF Len(commands) = 0 THEN urlT
  ELSE _applyCommands(segment, routeT, urlT, commands, freshId)

----------------------------------------------------------------------------
(* Inputs: the URL trees the parser yields for the URLs of link_spec.ts    *)
(* (and a few more), the route trees the tests build over them, and the    *)
(* command lists.                                                          *)

P(k, v) == [k |-> k, v |-> v]

\* the root of every parsed URL: new UrlSegment("", {}, null)
RootSegment == UrlSegment(1, Str(<<>>), EmptyMap, Null)
Aux == Str(<<"a", "u", "x">>)

\* parse("/")
Url_root == Tree(90, TreeNode(RootSegment, <<>>))

\* parse("/a/b")
Url_a_b ==
  Tree(90, TreeNode(RootSegment, <<
    TreeNode(UrlSegment(2, Str(<<"a">>), EmptyMap, Null), <<
      TreeNode(UrlSegment(3, Str(<<"b">>), EmptyMap, Null), <<>>)>>)>>))

\* parse("/a/11/b(c)")
Url_a_11_b_c ==
  Tree(90, TreeNode(RootSegment, <<
    TreeNode(UrlSegment(2, Str(<<"a">>), EmptyMap, Null), <<
      TreeNode(UrlSegment(3, Str(<<"1", "1">>), EmptyMap, Null), <<
        TreeNode(UrlSegment(4, Str(<<"b">>), EmptyMap, Null), <<>>),
        TreeNode(UrlSegment(5, Str(<<"c">>), EmptyMap, Aux), <<>>)>>)>>)>>))

\* parse("/a;aa=11")
Url_a_aa ==
  Tree(90, TreeNode(RootSegment, <<
    TreeNode(UrlSegment(2, Str(<<"a">>),
                        Map(<<P(<<"a", "a">>, Str(<<"1", "1">>))>>), Null), <<>>)>>))

\* parse("/a(ap)/c(cp)")
Url_a_ap_c_cp ==
  Tree(90, TreeNode(RootSegment, <<
    TreeNode(UrlSegment(2, Str(<<"a">>), EmptyMap, Null), <<
      TreeNode(UrlSegment(3, Str(<<"c">>), EmptyMap, Null), <<>>),
      TreeNode(UrlSegment(4, Str(<<"c", "p">>), EmptyMap, Aux), <<>>)>>),
    TreeNode(UrlSegment(5, Str(<<"a", "p">>), EmptyMap, Aux), <<>>)>>))

\* parse("/a/b/a"): the segment a occurs at two depths
Url_a_b_a ==
  Tree(90, TreeNode(RootSegment, <<
    TreeNode(UrlSegment(2, Str(<<"a">>), EmptyMap, Null), <<
      TreeNode(UrlSegment(3, Str(<<"b">>), EmptyMap, Null), <<
        TreeNode(UrlSegment(4, Str(<<"a">>), EmptyMap, Null), <<>>)>>)>>)>>))

\* parse("/a;aa=11;cc=5/b(c)")
Url_a_aa_cc_b_c ==
  Tree(90, TreeNode(RootSegment, <<
    TreeNode(UrlSegment(2, Str(<<"a">>),
                        Map(<<P(<<"a", "a">>, Str(<<"1", "1">>)),
                              P(<<"c", "c">>, Str(<<"5">>))>>), Null), <<
      TreeNode(UrlSegment(3, Str(<<"b">>), EmptyMap, Null), <<>>),
      TreeNode(UrlSegment(4, Str(<<"c">>), EmptyMap, Aux), <<>>)>>)>>))

UrlTrees ==
  {Url_root, Url_a_b, Url_a_11_b_c, Url_a_aa, Url_a_ap_c_cp, Url_a_b_a, Url_a_aa_cc_b_c}

\* the values of the nodes of a tree, and the nodes themselves
RECURSIVE NodesOf(_)
NodesOf(node) == {node} \cup UNION {NodesOf(node.children[i]) : i \in 1..Len(node.children)}

ValuesOf(tree) == {n.value : n \in NodesOf(tree.root)}

\* the opaque matched route types
TypeOf(name) == [t |-> "type", v |-> name]

\* s(u) of link_spec.ts: one RouteSegment over the URL segment u
RouteTree_s(u) == Tree(91, TreeNode(RouteSegment(20, <<u>>, EmptyMap, Null, Null, Null), <<>>))

\* the number of levels of routes without URL segments below the root route
MaxEmptyLevels == 2

\* a chain of RouteSegments without URL segments; the last one has the
\* given parameters and type
RECURSIVE EmptyChain(_, _, _, _)
EmptyChain(level, depth, parameters, type) ==
  IF level = depth
    THEN TreeNode(RouteSegment(20 + level, <<>>, parameters, Null, type, Null), <<>>)
  ELSE TreeNode(RouteSegment(20 + level, <<>>, EmptyMap, Null, TypeOf("A"), Null),
                <<EmptyChain(level + 1, depth, parameters, type)>>)

\* the tree of the last test of link_spec.ts: a child without URL segments
\* under the route of u (depth 1), or a deeper descendant
RouteTree_child(u, parameters, type, depth) ==
  Tree(91, TreeNode(RouteSegment(20, <<u>>, EmptyMap, Null, Null, Null),
                    <<EmptyChain(1, depth, parameters, type)>>))

\* the parameters and type of the route without URL segments: those of the
\* test, and those of a route that recognition found
EmptyRoutes ==
  {<<Null, Null>>, <<EmptyMap, Null>>, <<EmptyMap, TypeOf("A")>>, <<EmptyMap, TypeOf("B")>>}

\* two sibling routes of the same type with different subtrees
RouteTree_siblings(u) ==
  Tree(91, TreeNode(RouteSegment(20, <<u>>, EmptyMap, Null, Null, Null), <<
    TreeNode(RouteSegment(21, <<>>, EmptyMap, Null, TypeOf("A"), Null), <<
      TreeNode(RouteSegment(22, <<>>, EmptyMap, Null, TypeOf("B"), Null), <<>>)>>),
    TreeNode(RouteSegment(23, <<>>, EmptyMap, Null, TypeOf("A"), Null), <<
      TreeNode(RouteSegment(24, <<>>, EmptyMap, Aux, TypeOf("B"), Null), <<>>)>>)>>))

RouteTrees(urlT) ==
  {RouteTree_siblings(Tree_root(urlT))}
    \cup UNION {{RouteTree_s(u)}
                  \cup {RouteTree_child(u, e[1], e[2], depth) :
                          e \in EmptyRoutes, depth \in 1..MaxEmptyLevels}
                : u \in ValuesOf(urlT)}

\* command lists
Cmd_empty == <<>>
Cmd_root == <<Str(<<"/">>)>>
Cmd_positional ==
  <<Str(<<"/", "o", "n", "e">>), Num(11), Str(<<"t", "w", "o">>), Num(22)>>
Cmd_main == <<Str(<<"/", "a">>), Num(11), Str(<<"d">>)>>
Cmd_aux == <<Str(<<"/", "a">>), Num(11), Str(<<"a", "u", "x", ":", "d">>)>>
Cmd_params ==
  <<Str(<<"/", "a">>), Map(<<P(<<"a", "a">>, Num(22)), P(<<"b", "b">>, Num(33))>>)>>
Cmd_params_bb == <<Str(<<"/", "a">>), Map(<<P(<<"b", "b">>, Num(33))>>)>>
Cmd_main_x == <<Str(<<"/", "x">>), Num(11), Str(<<"d">>)>>
Cmd_main_ab == <<Str(<<"/", "a">>), Str(<<"b">>), Num(7)>>

AbsoluteCommands ==
  {Cmd_root, Cmd_positional, Cmd_main, Cmd_aux, Cmd_params, Cmd_params_bb, Cmd_main_x,
   Cmd_main_ab}

\* relative command lists: a first token, written x or ./x, and what follows
RelativeTokens == {<<"c", "2">>, <<"a", "u", "x", ":", "d">>, <<"a">>}
RelativeRests == {<<>>, <<Num(5)>>, <<Map(<<P(<<"x">>, Num(1))>>)>>}

DotSlash(x) == <<".", "/">> \o x

RelativeCommands ==
  {<<Str(x)>> \o r : x \in RelativeTokens, r \in RelativeRests}
    \cup {<<Str(DotSlash(x))>> \o r : x \in RelativeTokens, r \in RelativeRests}

CommandLists == {Cmd_empty} \cup AbsoluteCommands \cup RelativeCommands

----------------------------------------------------------------------------
(* The RouterLink directive.  The router is its environment: createUrlTree  *)
(* yields a URL tree, null, or raises; serializeUrl writes a tree with the  *)
(* URL serializer; urlTree is the router's current URL tree.                *)

\* the fields after the constructor has subscribed to router.changes
RouterLink_new(routeSegment) ==
  [target |-> Null, _changes |-> <<>>, _subscription |-> TRUE, href |-> Null,
   isActive |-> Bool(FALSE), _routeSegment |-> routeSegment]

Router_serializeUrl(tree) == Str(serialize(tree))

\* an update that leaves isActive alone when there is no tree
RouterLink_updateTargetUrlAndHref_keepsActive(d, tree, routerUrlTree) ==
  IF isPresent(tree)
    THEN [d EXCEPT !.href = Router_serializeUrl(tree),
                   !.isActive = Tree_contains(routerUrlTree, tree)]
  ELSE d

\* _updateTargetUrlAndHref, given the tree that createUrlTree returned
RouterLink_updateTargetUrlAndHref(d, tree, routerUrlTree) ==
  IF isPresent(tree)
    THEN [d EXCEPT !.href = Router_serializeUrl(tree),
                   !.isActive = Tree_contains(routerUrlTree, tree)]
  ELSE [d EXCEPT !.isActive = Bool(FALSE)]

\* a click that navigates only when the target is '_self'
RouterLink_onClick_onlySelf(d) ==
  IF LooseEq(d.target, Str(<<"_", "s", "e", "l", "f">>))
    THEN [navigate |-> <<[commands |-> d._changes, segment |-> d._routeSegment]>>,
          returns |-> Bool(FALSE)]
  ELSE [navigate |-> <<>>, returns |-> Bool(TRUE)]

\* onClick: the calls of router.navigate it makes and the value it returns
RouterLink_onClick(d) ==
  IF ~isString(d.target) \/ LooseEq(d.target, Str(<<"_", "s", "e", "l", "f">>))
    THEN [navigate |-> <<[commands |-> d._changes, segment |-> d._routeSegment]>>,
          returns |-> Bool(FALSE)]
  ELSE [navigate |-> <<>>, returns |-> Bool(TRUE)]

\* what has happened to the directive: the commands last assigned, and the
\* tree last computed with its containment in the router's tree then
NoHistory == [assigned |-> <<>>, computed |-> FALSE, tree |-> Null, contained |-> Bool(FALSE)]

----------------------------------------------------------------------------
(* The state machine: a URL tree and a route tree over it, and the call in  *)
(* progress with its result.  The callers are synchronous: a call is made  *)
(* when no call is in progress, and Return hands its result back.          *)

Which == {"url", "route"}
TreeOf(which) == IF which = "url" THEN urlTree ELSE routeTree

\* another object with the content of v: what a second parse or a second
\* recognition of the same URL creates
Detached(v) == [v EXCEPT !.id = v.id + 50]

AbsentValue(which) ==
  IF which = "url" THEN UrlSegment(60, Str(<<"z">>), EmptyMap, Null)
  ELSE RouteSegment(61, <<>>, EmptyMap, Null, TypeOf("Z"), Null)

LookupValues(which) ==
  ValuesOf(TreeOf(which)) \cup {Detached(v) : v \in ValuesOf(TreeOf(which))}
    \cup {AbsentValue(which)}

\* the trees contains() is asked about: the tree itself, its subtrees, and
\* the other trees of the same kind
SameKindTrees(which) ==
  {TreeOf(which)} \cup {Tree(92, n) : n \in NodesOf(TreeOf(which).root)}
    \cup (IF which = "url" THEN UrlTrees
          ELSE {RouteTree_s(u) : u \in ValuesOf(urlTree)}
                 \cup {RouteTree_siblings(Tree_root(urlTree))})

\* the same tree with the children of every node in the opposite order
RECURSIVE MirrorNode(_)
MirrorNode(node) ==
  TreeNode(node.value,
           [i \in 1..Len(node.children) |->
              MirrorNode(node.children[Len(node.children) + 1 - i])])
Mirror(tree) == Tree(tree.id, MirrorNode(tree.root))

OtherTrees(which) ==
  SameKindTrees(which) \cup {Mirror(t) : t \in SameKindTrees(which)}

\* the first identity not used by the trees of the state
FreshId == 100

Init ==
  /\ urlTree \in UrlTrees
  /\ routeTree \in RouteTrees(urlTree)
  /\ call = [op |-> "none"]
  /\ result = Null
  /\ directive = RouterLink_new(Null)
  /\ pending = 0
  /\ history = NoHistory

Link(segment, commands) ==
  /\ call.op = "none"
  /\ call' = [op |-> "link", segment |-> segment, commands |-> commands]
  /\ result' = link(segment, routeTree, urlTree, commands, FreshId)
  /\ UNCHANGED <<urlTree, routeTree, directive, pending, history>>

Root(which) ==
  /\ call.op = "none"
  /\ call' = [op |-> "root", tree |-> which]
  /\ result' = Tree_root(TreeOf(which))
  /\ UNCHANGED <<urlTree, routeTree, directive, pending, history>>

Parent(which, t) ==
  /\ call.op = "none"
  /\ call' = [op |-> "parent", tree |-> which, t |-> t]
  /\ result' = Tree_parent(TreeOf(which), t)
  /\ UNCHANGED <<urlTree, routeTree, directive, pending, history>>

\* the array object of the children of a node
ArrayOf(node) == 200 + node.value.id

\* a children() that hands out the array of the node it found
Tree_children_array_ofNode(tree, t) ==
  LET n == _findNode(t, tree.root)
  IN IF isPresent(n) THEN ArrayOf(n) ELSE FreshId

\* the array object children() returns: map() allocates it
Tree_children_array(tree, t) == FreshId

\* the array object pathFromRoot() returns: map() allocates it
Tree_pathFromRoot_array(tree, t) == FreshId

Children(which, t) ==
  /\ call.op = "none"
  /\ call' = [op |-> "children", tree |-> which, t |-> t,
              array |-> Tree_children_array(TreeOf(which), t)]
  /\ result' = Tree_children(TreeOf(which), t)
  /\ UNCHANGED <<urlTree, routeTree, directive, pending, history>>

FirstChild(which, t) ==
  /\ call.op = "none"
  /\ call' = [op |-> "firstChild", tree |-> which, t |-> t]
  /\ result' = Tree_firstChild(TreeOf(which), t)
  /\ UNCHANGED <<urlTree, routeTree, directive, pending, history>>

PathFromRoot(which, t) ==
  /\ call.op = "none"
  /\ call' = [op |-> "pathFromRoot", tree |-> which, t |-> t,
              array |-> Tree_pathFromRoot_array(TreeOf(which), t)]
  /\ result' = Tree_pathFromRoot(TreeOf(which), t)
  /\ UNCHANGED <<urlTree, routeTree, directive, pending, history>>

Contains(which, other) ==
  /\ call.op = "none"
  /\ call' = [op |-> "contains", tree |-> which, other |-> other]
  /\ result' = Tree_contains(TreeOf(which), other)
  /\ UNCHANGED <<urlTree, routeTree, directive, pending, history>>

\* a push onto the array object array reaches the node that owns it
RECURSIVE PushedInNode(_, _, _)
PushedInNode(node, array, x) ==
  LET below == [i \in 1..Len(node.children) |-> PushedInNode(node.children[i], array, x)]
  IN TreeNode(node.value,
              IF ArrayOf(node) = array THEN Append(below, TreeNode(x, <<>>)) ELSE below)
Pushed(tree, array, x) == Tree(tree.id, PushedInNode(tree.root, array, x))

\* the caller pushes x onto the array that children or pathFromRoot returned
ModifyResult(x) ==
  /\ call.op \in {"children", "pathFromRoot"}
  /\ HasTag(result, "arr")
  /\ call' = [op |-> "push", of |-> call.op, tree |-> call.tree, t |-> call.t]
  /\ result' = Arr(Append(result.v, x))
  /\ urlTree' = Pushed(urlTree, call.array, x)
  /\ routeTree' = Pushed(routeTree, call.array, x)
  /\ UNCHANGED <<directive, pending, history>>

Return ==
  /\ call.op # "none"
  /\ call' = [op |-> "none"]
  /\ result' = Null
  /\ UNCHANGED <<urlTree, routeTree, directive, pending, history>>

Next ==
  \/ Return
  \/ \E segment \in ValuesOf(routeTree), commands \in CommandLists : Link(segment, commands)
  \/ \E which \in Which : Root(which)
  \/ \E which \in Which : \E t \in LookupValues(which) : Parent(which, t)
  \/ \E which \in Which : \E t \in LookupValues(which) : Children(which, t)
  \/ \E which \in Which : \E t \in LookupValues(which) : FirstChild(which, t)
  \/ \E which \in Which : \E t \in LookupValues(which) : PathFromRoot(which, t)
  \/ \E which \in Which : \E other \in OtherTrees(which) : Contains(which, other)
  \/ \E which \in Which : ModifyResult(AbsentValue(which))

Spec == Init /\ [][Next]_vars

----------------------------------------------------------------------------

(* Claims *)

IsLink == call.op = "link"
LinkOk == IsLink /\ result # Throw

\* C1: link with an empty command list returns the very urlTree object it
\* was given, whatever the start position and the URL tree.
C1_EmptyCommandsReturnSameTree ==
  (IsLink /\ Len(call.commands) = 0) => (result = urlTree /\ result.id = urlTree.id)

C1_Witness ==
  /\ IsLink /\ Len(call.commands) = 0
  /\ urlTree = Url_a_11_b_c
  /\ Len(call.segment.urlSegments) = 0
  /\ result.id = urlTree.id

\* Vocabulary of the link claims -------------------------------------------

\* the commands as link reads them, and those of them that are path tokens
Normalized == _normalizeCommands(call.commands).commands
IsPathToken(c) == ~isStringMap(c)
PathTokens == SelectSeq(Normalized, IsPathToken)
HasOutletPrefix(c) == isString(c) /\ Len(Split(c.v, ":")) > 1
IsNumber(c) == HasTag(c, "num")

\* the node of the URL tree the commands apply under, and the node that
\* holds the same UrlSegment object in the result
Anchor == _findStartingNode(_normalizeCommands(call.commands), urlTree, call.segment, routeTree)
NodeWithId(tree, id) == CHOOSE n \in NodesOf(tree.root) : n.value.id = id
ResultAnchor == NodeWithId(result, Anchor.value.id)

\* a link call that rebuilt the tree under its anchor
Rebuilt ==
  /\ LinkOk
  /\ Len(call.commands) > 0
  /\ ~_navigateToRoot(_normalizeCommands(call.commands))
  /\ Len(PathTokens) > 0

\* the sibling nodes j levels below node, going down through the primary
\* (outlet null) child of each level
InOutlet(nodes, outlet) == SelectSeq(nodes, LAMBDA n : LooseEq(n.value.outlet, outlet))

RECURSIVE Level(_, _)
Level(node, j) ==
  IF j = 1 THEN node.children
  ELSE LET primary == InOutlet(node.children, Null)
       IN IF Len(primary) = 0 THEN <<>> ELSE Level(primary[1], j - 1)

Elems(seq) == {seq[i] : i \in 1..Len(seq)}

\* the string a tree serializes to
Serialized(tree) == serialize(tree)

\* C2: when the commands change only the primary (main) route, every
\* auxiliary-outlet sibling subtree at the rebuilt levels of the URL tree is
\* still present, unchanged, in the result; /a/11/b(c) with ["/a", 11, "d"]
\* serializes to /a/11/d(aux:c).
C2_MainRouteKeepsAuxSiblings ==
  /\ (Rebuilt /\ \A i \in 1..Len(PathTokens) : ~HasOutletPrefix(PathTokens[i]))
       => \A j \in 1..Len(PathTokens) :
            \A n \in Elems(Level(Anchor, j)) :
               isPresent(n.value.outlet) => n \in Elems(Level(ResultAnchor, j))
  /\ (IsLink /\ urlTree = Url_a_11_b_c /\ call.commands = Cmd_main)
       => /\ result # Throw
          /\ Serialized(result)
               = <<"/", "a", "/", "1", "1", "/", "d", "(", "a", "u", "x", ":", "c", ")">>

C2_Witness ==
  /\ Rebuilt /\ urlTree = Url_a_11_b_c /\ call.commands = Cmd_main
  /\ \E n \in Elems(Level(Anchor, 3)) : isPresent(n.value.outlet)
  /\ Level(ResultAnchor, 3)[1].value.segment = Str(<<"d">>)

\* C3: when the commands end in an outlet-prefixed token, only the segment
\* of the named outlet is replaced at the branching level: the primary
\* subtree and every other outlet's subtree there are unchanged;
\* /a/11/b(c) with ["/a", 11, "aux:d"] serializes to /a/11/b(aux:d).
C3_AuxUpdateKeepsOtherOutlets ==
  /\ (/\ Rebuilt
      /\ HasOutletPrefix(Normalized[Len(Normalized)])
      /\ \A i \in 1..(Len(PathTokens) - 1) : ~HasOutletPrefix(PathTokens[i]))
       => LET k == Len(PathTokens)
              outlet == _outlet(<<PathTokens[k]>>)
              named == InOutlet(Level(ResultAnchor, k), outlet)
          IN /\ \A n \in Elems(Level(Anchor, k)) :
                   ~LooseEq(n.value.outlet, outlet) => n \in Elems(Level(ResultAnchor, k))
             /\ Len(named) = 1
             /\ named[1].value.segment = _segment(<<PathTokens[k]>>)
             /\ Len(Level(ResultAnchor, k)) = Len(Level(Anchor, k))
                  + (IF Len(InOutlet(Level(Anchor, k), outlet)) = 0 THEN 1 ELSE 0)
  /\ (IsLink /\ urlTree = Url_a_11_b_c /\ call.commands = Cmd_aux)
       => /\ result # Throw
          /\ Serialized(result)
               = <<"/", "a", "/", "1", "1", "/", "b", "(", "a", "u", "x", ":", "d", ")">>

C3_Witness ==
  /\ Rebuilt /\ urlTree = Url_a_11_b_c /\ call.commands = Cmd_aux
  /\ Level(Anchor, 3)[1] = Level(ResultAnchor, 3)[1]
  /\ Level(Anchor, 3)[2].value.segment = Str(<<"c">>)
  /\ Level(ResultAnchor, 3)[2].value.segment = Str(<<"d">>)

StartsWithDotSlash(c) == isString(c) /\ Len(c.v) > 2 /\ c.v[1] = "." /\ c.v[2] = "/"
WithoutDotSlash(commands) ==
  <<Str(SubSeq(commands[1].v, 3, Len(commands[1].v)))>> \o Tail(commands)

\* C5: link with a first command "./x" gives the same tree as link with
\* "x"; both rewrite the primary child of the anchor and keep its auxiliary
\* children; /a(ap)/c(cp) anchored at a gives /a(aux:ap)/c2(aux:cp) for
\* ["./c2"] and for ["c2"].
C5_DotSlashSameAsBare ==
  /\ (IsLink /\ Len(call.commands) > 0 /\ StartsWithDotSlash(call.commands[1]))
       => /\ result = link(call.segment, routeTree, urlTree,
                           WithoutDotSlash(call.commands), FreshId)
          /\ (result # Throw /\ ~HasOutletPrefix(PathTokens[1]))
               => \A n \in Elems(Anchor.children) :
                     isPresent(n.value.outlet) => n \in Elems(ResultAnchor.children)
  /\ (/\ IsLink /\ urlTree = Url_a_ap_c_cp
      /\ Len(call.segment.urlSegments) = 1 /\ call.segment.urlSegments[1].id = 2
      /\ call.commands \in {<<Str(<<".", "/", "c", "2">>)>>, <<Str(<<"c", "2">>)>>})
       => /\ result # Throw
          /\ Serialized(result)
               = <<"/", "a", "(", "a", "u", "x", ":", "a", "p", ")",
                   "/", "c", "2", "(", "a", "u", "x", ":", "c", "p", ")">>

C5_Witness ==
  /\ LinkOk /\ urlTree = Url_a_ap_c_cp
  /\ call.commands = <<Str(<<".", "/", "c", "2">>)>>
  /\ Len(call.segment.urlSegments) = 1 /\ call.segment.urlSegments[1].id = 2
  /\ ResultAnchor.children[1].value.segment = Str(<<"c", "2">>)
  /\ ResultAnchor.children[2] = Anchor.children[2]

\* the commands with every number replaced by the string that spells it
NumbersAsStrings(commands) ==
  [i \in 1..Len(commands) |->
     IF IsNumber(commands[i]) THEN Str(Digits(commands[i].v)) ELSE commands[i]]

\* C7: a command that is neither a string nor a parameter object is
\* converted to its string form and becomes one primary-outlet segment, in
\* command order, as the plain string would; /a/b with
\* ["/one", 11, "two", 22] gives /one/11/two/22.
C7_PositionalCommandsStringified ==
  /\ (IsLink /\ \E i \in 1..Len(call.commands) : IsNumber(call.commands[i]))
       => result = link(call.segment, routeTree, urlTree,
                        NumbersAsStrings(call.commands), FreshId)
  /\ (Rebuilt /\ \A i \in 1..Len(PathTokens) : ~HasOutletPrefix(PathTokens[i]))
       => \A j \in 1..Len(PathTokens) :
            IsNumber(PathTokens[j])
              => LET primary == InOutlet(Level(ResultAnchor, j), Null)
                 IN /\ Len(primary) = 1
                    /\ primary[1].value.segment = Str(Digits(PathTokens[j].v))
                    /\ isBlank(primary[1].value.outlet)
  /\ (IsLink /\ urlTree = Url_a_b /\ call.commands = Cmd_positional)
       => /\ result # Throw
          /\ Serialized(result)
               = <<"/", "o", "n", "e", "/", "1", "1", "/", "t", "w", "o", "/", "2", "2">>

C7_Witness ==
  /\ Rebuilt /\ urlTree = Url_a_b /\ call.commands = Cmd_positional
  /\ Level(ResultAnchor, 2)[1].value.segment = Str(<<"1", "1">>)
  /\ Level(ResultAnchor, 4)[1].value.segment = Str(<<"2", "2">>)

\* Vocabulary of the Tree claims -------------------------------------------

\* the values from the root down to the node that holds the object with
\* identity id (<<>> when the tree has no such node)
RECURSIVE IdPath(_, _)
IdPath(node, id) ==
  IF node.value.id = id THEN <<node.value>>
  ELSE LET below == {i \in 1..Len(node.children) : IdPath(node.children[i], id) # <<>>}
       IN IF below = {} THEN <<>>
          ELSE <<node.value>> \o IdPath(node.children[CHOOSE i \in below : TRUE], id)

\* the values of a tree in pre-order: root, then the children left to right
RECURSIVE PreOrder(_), PreOrderOf(_, _)
PreOrder(node) == <<node.value>> \o PreOrderOf(node.children, 1)
PreOrderOf(nodes, i) ==
  IF i > Len(nodes) THEN <<>> ELSE PreOrder(nodes[i]) \o PreOrderOf(nodes, i + 1)

\* the first value in pre-order that is value-equal to t
FirstEqual(tree, t) ==
  LET order == PreOrder(tree.root)
      k == CHOOSE i \in 1..Len(order) :
             /\ _equalValues(t, order[i])
             /\ \A j \in 1..(i - 1) : ~_equalValues(t, order[j])
  IN order[k]

\* the nearest ancestor-or-self of the start, by its position in the route
\* tree, that has URL segments
NearestWithUrl(tree, segment) ==
  LET path == IdPath(tree.root, segment.id)
      k == CHOOSE i \in 1..Len(path) :
             /\ Len(path[i].urlSegments) > 0
             /\ \A j \in (i + 1)..Len(path) : Len(path[j].urlSegments) = 0
  IN path[k]

\* C6: when the start RouteSegment has no URL segments, link anchors the
\* commands at the nearest ancestor of the start that has URL segments and
\* gives the result it gives when that ancestor is passed as the start.
C6_EmptySegmentUsesNearestAncestor ==
  (IsLink /\ Len(call.commands) > 0 /\ Len(call.segment.urlSegments) = 0)
    => result = link(NearestWithUrl(routeTree, call.segment), routeTree, urlTree,
                     call.commands, FreshId)

\* C8: for every value v of a node of the tree, pathFromRoot(v) starts at the
\* root value, ends with v, and has length 1 + the depth of v.
C8_PathEndsAtValueItself ==
  (call.op = "pathFromRoot" /\ call.t \in ValuesOf(TreeOf(call.tree)))
    => /\ result # Throw
       /\ result.v[1] = Tree_root(TreeOf(call.tree))
       /\ result.v[Len(result.v)] = call.t
       /\ Len(result.v) = Len(IdPath(TreeOf(call.tree).root, call.t.id))

\* C8 (amended): for every value v of a node of the tree, pathFromRoot(v) is
\* the path from the root value to the value of the first node in pre-order
\* that is value-equal to v: it ends with a value equal to v and its length is
\* 1 + the depth of that node.
C8_PathEndsAtFirstEqualValue ==
  (call.op = "pathFromRoot" /\ call.t \in ValuesOf(TreeOf(call.tree)))
    => LET first == FirstEqual(TreeOf(call.tree), call.t)
       IN /\ result # Throw
          /\ result.v = IdPath(TreeOf(call.tree).root, first.id)
          /\ result.v[1] = Tree_root(TreeOf(call.tree))
          /\ _equalValues(call.t, result.v[Len(result.v)])

C8_Witness ==
  /\ call.op = "pathFromRoot" /\ call.tree = "url" /\ urlTree = Url_a_b_a
  /\ call.t.id = 4
  /\ result # Throw /\ Len(result.v) = 2 /\ result.v[2].id = 2

NoEqualSiblings(tree) ==
  \A n \in NodesOf(tree.root) :
    \A i, j \in 1..Len(n.children) :
      i # j => ~_equalValues(n.children[i].value, n.children[j].value)

CallsContainsSelf == call.op = "contains" /\ call.other = TreeOf(call.tree)

\* C9: for every tree T, also one whose sibling nodes carry value-equal
\* values over different subtrees, T.contains(T) is true.
C9_ContainsSelfAlways == CallsContainsSelf => result = Bool(TRUE)

\* C9 (amended): for every tree T in which no two sibling nodes carry
\* value-equal values, T.contains(T) is true.
C9_ContainsSelfWithoutEqualSiblings ==
  (CallsContainsSelf /\ NoEqualSiblings(TreeOf(call.tree))) => result = Bool(TRUE)

C9_Witness ==
  /\ CallsContainsSelf /\ call.tree = "url" /\ urlTree = Url_a_ap_c_cp
  /\ NoEqualSiblings(urlTree)
  /\ result = Bool(TRUE)

\* t matches a node of the tree under one of the equalities of the lookups
MatchesSomeNode(tree, t) ==
  \E v \in ValuesOf(tree) :
     \/ StrictEq(t, v)
     \/ _equalValues(t, v)

\* C10: for a value that matches no node of the tree, parent, children,
\* firstChild and pathFromRoot complete without an error and yield null.
C10_AbsentValueYieldsNull ==
  (/\ call.op \in {"parent", "children", "firstChild", "pathFromRoot"}
   /\ ~MatchesSomeNode(TreeOf(call.tree), call.t))
    => result = Null

\* some child of node is value-equal to the value of c and contains c's subtree,
\* for every child c of sub
RECURSIVE ContainsSome(_, _)
ContainsSome(node, sub) ==
  /\ _equalValues(node.value, sub.value)
  /\ \A k \in 1..Len(sub.children) :
       \E i \in 1..Len(node.children) :
          /\ _equalValues(node.children[i].value, sub.children[k].value)
          /\ ContainsSome(node.children[i], sub.children[k])

\* the first child of node that is value-equal to the value of c exists and
\* contains c's subtree, for every child c of sub
RECURSIVE ContainsFirst(_, _)
ContainsFirst(node, sub) ==
  /\ _equalValues(node.value, sub.value)
  /\ \A k \in 1..Len(sub.children) :
       \E i \in 1..Len(node.children) :
          /\ _equalValues(node.children[i].value, sub.children[k].value)
          /\ \A j \in 1..(i - 1) :
               ~_equalValues(node.children[j].value, sub.children[k].value)
          /\ ContainsFirst(node.children[i], sub.children[k])

\* C11: contains(other) is true exactly when the root values are value-equal
\* and, recursively, for every child c of other's node some child of this
\* tree's node is value-equal to c and contains c's subtree, whatever the
\* order of the children.
C11_ContainsIffSomeChildContains ==
  call.op = "contains"
    => result = Bool(ContainsSome(TreeOf(call.tree).root, call.other.root))

\* C11 (amended): contains(other) is true exactly when the root values are
\* value-equal and, recursively, for every child c of other's node the first
\* child of this tree's node that is value-equal to c exists and contains c's
\* subtree; in a tree without value-equal siblings this is some value-equal
\* child containing c's subtree, and the order of the children has no effect.
C11_ContainsIffFirstChildContains ==
  call.op = "contains"
    => /\ result = Bool(ContainsFirst(TreeOf(call.tree).root, call.other.root))
       /\ NoEqualSiblings(TreeOf(call.tree))
            => /\ result = Bool(ContainsSome(TreeOf(call.tree).root, call.other.root))
               /\ result = Tree_contains(Mirror(TreeOf(call.tree)), call.other)

\* a tree is asked about the tree with its children in the opposite order
C11_Witness ==
  /\ call.op = "contains" /\ call.tree = "url" /\ urlTree = Url_a_ap_c_cp
  /\ call.other = Mirror(Url_a_ap_c_cp) /\ call.other # urlTree
  /\ result = Bool(TRUE)

----------------------------------------------------------------------------
(* The equality predicates, applied to pairs of segments: the segments of   *)
(* the trees, other objects with the same content, segments that differ    *)
(* from them in one field, and null.                                        *)

Params_aa_cc == Map(<<P(<<"a", "a">>, Str(<<"1", "1">>)), P(<<"c", "c">>, Str(<<"5">>))>>)
Params_cc_aa == Map(<<P(<<"c", "c">>, Str(<<"5">>)), P(<<"a", "a">>, Str(<<"1", "1">>))>>)
Params_aa_cc6 == Map(<<P(<<"a", "a">>, Str(<<"1", "1">>)), P(<<"c", "c">>, Str(<<"6">>))>>)
Params_aa_num == Map(<<P(<<"a", "a">>, Num(11)), P(<<"c", "c">>, Str(<<"5">>))>>)
Params_aa_bb == Map(<<P(<<"a", "a">>, Str(<<"1", "1">>)), P(<<"b", "b">>, Str(<<"5">>))>>)

UrlSegmentVariants ==
  {UrlSegment(70, Str(<<"a">>), Params_aa_cc, Null),
   UrlSegment(71, Str(<<"a">>), Params_cc_aa, Null),
   UrlSegment(72, Str(<<"a">>), Params_aa_cc6, Null),
   UrlSegment(73, Str(<<"a">>), Params_aa_num, Null),
   UrlSegment(74, Str(<<"a">>), Params_aa_bb, Null),
   UrlSegment(75, Str(<<"a">>), EmptyMap, Aux),
   UrlSegment(76, Str(<<"1", "1">>), EmptyMap, Null),
   UrlSegment(77, Num(11), EmptyMap, Null)}

UrlSegmentInputs ==
  ValuesOf(urlTree) \cup {Detached(v) : v \in ValuesOf(urlTree)}
    \cup UrlSegmentVariants \cup {Null}

Factory(name) == [t |-> "factory", v |-> name]

RouteSegmentVariants ==
  {RouteSegment(80, <<>>, Params_aa_cc, Null, TypeOf("A"), Null),
   RouteSegment(81, <<>>, Params_cc_aa, Null, TypeOf("A"), Null),
   RouteSegment(82, <<>>, Params_aa_cc6, Null, TypeOf("A"), Null),
   RouteSegment(83, <<UrlSegment(70, Str(<<"a">>), Params_aa_cc, Null)>>,
                Params_aa_cc, Null, TypeOf("A"), Null),
   RouteSegment(84, <<>>, Params_aa_cc, Null, TypeOf("A"), Factory("A")),
   RouteSegment(85, <<>>, Params_aa_cc, Aux, TypeOf("A"), Null),
   RouteSegment(86, <<>>, Params_aa_cc, Null, TypeOf("B"), Null),
   RouteSegment(87, <<>>, Params_aa_cc, Null, Null, Null)}

RouteSegmentInputs ==
  ValuesOf(routeTree) \cup RouteSegmentVariants \cup {Null}

InitEqual ==
  /\ urlTree \in UrlTrees
  /\ routeTree \in {RouteTree_s(Tree_root(urlTree)),
                     RouteTree_siblings(Tree_root(urlTree)),
                     RouteTree_child(Tree_root(urlTree), Null, Null, 1)}
  /\ call = [op |-> "none"]
  /\ result = Null
  /\ directive = RouterLink_new(Null)
  /\ pending = 0
  /\ history = NoHistory

EqualSegments(a, b) ==
  /\ call.op = "none"
  /\ call' = [op |-> "equalSegments", a |-> a, b |-> b]
  /\ result' = IF equalSegmentsThrows(a, b) THEN Throw ELSE Bool(equalSegments(a, b))
  /\ UNCHANGED <<urlTree, routeTree, directive, pending, history>>

EqualUrlSegments(a, b) ==
  /\ call.op = "none"
  /\ call' = [op |-> "equalUrlSegments", a |-> a, b |-> b]
  /\ result' = IF equalUrlSegmentsThrows(a, b) THEN Throw
               ELSE Bool(equalUrlSegments(a, b))
  /\ UNCHANGED <<urlTree, routeTree, directive, pending, history>>

NextEqual ==
  \/ Return
  \/ \E a \in RouteSegmentInputs, b \in RouteSegmentInputs : EqualSegments(a, b)
  \/ \E a \in UrlSegmentInputs, b \in UrlSegmentInputs : EqualUrlSegments(a, b)

SpecEqual == InitEqual /\ [][NextEqual]_vars

\* the key/value pairs of a parameter map
PairSet(m) == {<<m.v[i].k, m.v[i].v>> : i \in 1..Len(m.v)}

ComparesUrlSegments ==
  call.op = "equalUrlSegments" /\ isPresent(call.a) /\ isPresent(call.b)

\* C12: for two present UrlSegments equalUrlSegments is true exactly when
\* the segments are equal (==), the outlets are equal (==) and the parameter
\* maps hold the same key/value pairs in any key order; it is true of a
\* segment and itself and gives the same answer with the arguments swapped.
C12_EqualUrlSegmentsIffSameContent ==
  ComparesUrlSegments
    => /\ result = Bool(/\ LooseEq(call.a.segment, call.b.segment)
                        /\ LooseEq(call.a.outlet, call.b.outlet)
                        /\ PairSet(call.a.parameters) = PairSet(call.b.parameters))
       /\ call.a = call.b => result = Bool(TRUE)
       /\ result = Bool(equalUrlSegments(call.b, call.a))

\* two segments whose parameter maps list the same pairs in different orders
C12_Witness ==
  /\ ComparesUrlSegments
  /\ call.a.parameters = Params_aa_cc /\ call.b.parameters = Params_cc_aa
  /\ result = Bool(TRUE)

ComparesSegments ==
  call.op = "equalSegments" /\ isPresent(call.a) /\ isPresent(call.b)

\* the same parameter map: both absent, or the same key/value pairs
SameParameterMap(p, q) ==
  IF isBlank(p) \/ isBlank(q) THEN isBlank(p) /\ isBlank(q)
  ELSE PairSet(p) = PairSet(q)

\* C13: for two present RouteSegments equalSegments is true exactly when
\* they have the identical type, the same outlet and the same parameter map
\* in any key order; the URL segments and the component factory have no
\* influence.
C13_EqualSegmentsIffTypeOutletParameters ==
  ComparesSegments
    => result = Bool(/\ call.a.type = call.b.type
                     /\ LooseEq(call.a.outlet, call.b.outlet)
                     /\ SameParameterMap(call.a.parameters, call.b.parameters))

\* two route segments that differ in their URL segments only
C13_Witness ==
  /\ ComparesSegments
  /\ call.a.id = 80 /\ call.b.id = 83 /\ call.a.urlSegments # call.b.urlSegments
  /\ result = Bool(TRUE)

\* C14: equalSegments and equalUrlSegments return a boolean for every pair of
\* arguments, also when one or both are null, and never raise an error.
C14_EqualityIsTotal ==
  call.op \in {"equalSegments", "equalUrlSegments"}
    => result \in {Bool(TRUE), Bool(FALSE)}

\* some value of the tree is value-equal to t: pathFromRoot(t) finds it
EqualToSomeValue(tree, t) == \E v \in ValuesOf(tree) : _equalValues(t, v)

\* C15: children(v) and firstChild(v) locate the node pathFromRoot(v) ends
\* at, the first node in pre-order whose value is value-equal to v: they
\* yield that node's children (its first child), and null exactly when no
\* value of the tree is value-equal to v.
C15_ChildrenLocateFirstEqualNode ==
  call.op \in {"children", "firstChild"}
    => LET tree == TreeOf(call.tree)
       IN IF ~EqualToSomeValue(tree, call.t) THEN result = Null
          ELSE LET n == NodeWithId(tree, FirstEqual(tree, call.t).id)
               IN result = IF call.op = "children" THEN Arr(NodeValues(n.children))
                           ELSE IF Len(n.children) > 0 THEN n.children[1].value
                           ELSE Null

CallsParentOfPresent ==
  call.op = "parent" /\ call.t \in ValuesOf(TreeOf(call.tree))

\* the value above the first node in pre-order that is value-equal to t,
\* null when that node is the root
AboveFirstEqual(tree, t) ==
  LET path == IdPath(tree.root, FirstEqual(tree, t).id)
  IN IF Len(path) > 1 THEN path[Len(path) - 1] ELSE Null

HasElement(arr, Test(_)) == arr # Null /\ \E i \in 1..Len(arr.v) : Test(arr.v[i])

\* C16: for a value v of the tree, parent(v) is the value above the first
\* pre-order match of v, null when that match is the root; and whenever
\* parent(v) is not null, children(parent(v)) has v (a value equal to v)
\* among its elements.
C16_ParentHasValueAmongChildren ==
  CallsParentOfPresent
    => /\ result = AboveFirstEqual(TreeOf(call.tree), call.t)
       /\ result # Null
            => HasElement(Tree_children(TreeOf(call.tree), result),
                          LAMBDA c : _equalValues(call.t, c))

\* C16 (amended): for a value v of the tree, parent(v) is the value above
\* the first pre-order match of v, null when that match is the root; whenever
\* parent(v) is not null and no earlier node in pre-order is value-equal to
\* it, children(parent(v)) has the value of that first match, which is
\* value-equal to v, among its elements.
C16_ParentHasFirstMatchAmongChildren ==
  CallsParentOfPresent
    => /\ result = AboveFirstEqual(TreeOf(call.tree), call.t)
       /\ (result # Null /\ FirstEqual(TreeOf(call.tree), result).id = result.id)
            => /\ HasElement(Tree_children(TreeOf(call.tree), result),
                             LAMBDA c : c = FirstEqual(TreeOf(call.tree), call.t))
               /\ _equalValues(call.t, FirstEqual(TreeOf(call.tree), call.t))

\* the parent of the second a of /a/b/a is the root, whose child is the
\* first a
C16_Witness ==
  /\ CallsParentOfPresent /\ call.tree = "url" /\ urlTree = Url_a_b_a
  /\ call.t.id = 4
  /\ result # Null /\ result # Throw /\ result.id = 1
  /\ FirstEqual(urlTree, call.t).id = 2

TreeQueries == {"root", "parent", "children", "firstChild", "pathFromRoot", "contains"}

\* C17: no step of a Tree query changes a tree: root, parent, children,
\* firstChild, pathFromRoot and contains leave every node's value and
\* ordered children as they were, and so does a modification of the sequence
\* that children or pathFromRoot returned.
C17_QueriesLeaveTreesUnchanged ==
  [][call'.op \in TreeQueries \cup {"push"}
       => (urlTree' = urlTree /\ routeTree' = routeTree)]_vars

\* the caller has pushed onto the sequence children(root) returned, and the
\* root still has its one child
C17_Witness ==
  /\ call.op = "push" /\ call.of = "children" /\ call.tree = "url"
  /\ call.t.id = 1
  /\ urlTree = Url_a_b
  /\ Len(result.v) = 2 /\ Len(urlTree.root.children) = 1

----------------------------------------------------------------------------
(* The RouterLink state machine: the template assigns routerLink and        *)
(* target, the user clicks, the router changes its URL tree and emits on   *)
(* changes, the subscriber receives the events that are pending, and the   *)
(* directive is destroyed.                                                 *)

\* the number of change events emitted and not yet received
MaxPending == 1

RouterUrlTrees == {Url_root, Url_a_b, Url_a_b_a}

\* what router.createUrlTree can do: return a tree, return null, raise
CreateUrlTreeOutcomes == RouterUrlTrees \cup {Null, Throw}

Targets ==
  {Null, Str(<<>>), Str(<<"_", "s", "e", "l", "f">>), Str(<<"_", "b", "l", "a", "n", "k">>)}

RouterLinkCommands == {Cmd_root, Cmd_main}

InitRouterLink ==
  /\ urlTree \in RouterUrlTrees
  /\ routeTree = RouteTree_s(Tree_root(urlTree))
  /\ call = [op |-> "none"]
  /\ result = Null
  /\ directive \in {RouterLink_new(seg) : seg \in {Null, Tree_root(routeTree)}}
  /\ pending = 0
  /\ history = NoHistory

\* the history after _updateTargetUrlAndHref with the outcome created
Computed(created) ==
  IF created = Throw THEN history
  ELSE [history EXCEPT !.computed = TRUE, !.tree = created,
                       !.contained = IF isPresent(created)
                                       THEN Tree_contains(urlTree, created)
                                     ELSE Bool(FALSE)]

\* set routerLink(data)
SetRouterLink(data, created) ==
  /\ call.op = "none"
  /\ call' = [op |-> "routerLink", created |-> created, hrefBefore |-> directive.href]
  /\ directive' =
       IF created = Throw THEN [directive EXCEPT !._changes = data]
       ELSE RouterLink_updateTargetUrlAndHref([directive EXCEPT !._changes = data],
                                              created, urlTree)
  /\ history' = [Computed(created) EXCEPT !.assigned = data]
  /\ result' = IF created = Throw THEN Throw ELSE Null
  /\ UNCHANGED <<urlTree, routeTree, pending>>

\* the template binds target
SetTarget(target) ==
  /\ call.op = "none"
  /\ directive.target # target
  /\ call' = [op |-> "target"]
  /\ directive' = [directive EXCEPT !.target = target]
  /\ result' = Null
  /\ UNCHANGED <<urlTree, routeTree, pending, history>>

OnClick ==
  /\ call.op = "none"
  /\ call' = [op |-> "onClick", navigate |-> RouterLink_onClick(directive).navigate]
  /\ result' = RouterLink_onClick(directive).returns
  /\ UNCHANGED <<urlTree, routeTree, directive, pending, history>>

\* the router has navigated: it has a new URL tree and emits on changes
EmitChange(tree) ==
  /\ call.op = "none"
  /\ pending < MaxPending
  /\ urlTree' = tree
  /\ pending' = IF directive._subscription THEN pending + 1 ELSE pending
  /\ UNCHANGED <<routeTree, call, result, directive, history>>

\* the subscriber of the constructor receives a change event
ReceiveChange(created) ==
  /\ call.op = "none"
  /\ directive._subscription
  /\ pending > 0
  /\ pending' = pending - 1
  /\ call' = [op |-> "changes", created |-> created, hrefBefore |-> directive.href]
  /\ directive' =
       IF created = Throw THEN directive
       ELSE RouterLink_updateTargetUrlAndHref(directive, created, urlTree)
  /\ history' = Computed(created)
  /\ result' = IF created = Throw THEN Throw ELSE Null
  /\ UNCHANGED <<urlTree, routeTree>>

\* ngOnDestroy disposes the subscription: no pending event is received
NgOnDestroy ==
  /\ call.op = "none"
  /\ directive._subscription
  /\ call' = [op |-> "ngOnDestroy"]
  /\ directive' = [directive EXCEPT !._subscription = FALSE]
  /\ pending' = 0
  /\ result' = Null
  /\ UNCHANGED <<urlTree, routeTree, history>>

ReturnToTemplate ==
  /\ call.op # "none"
  /\ call' = [op |-> "none"]
  /\ result' = Null
  /\ UNCHANGED <<urlTree, routeTree, directive, pending, history>>

NextRouterLink ==
  \/ ReturnToTemplate
  \/ \E data \in RouterLinkCommands, created \in CreateUrlTreeOutcomes :
        SetRouterLink(data, created)
  \/ \E target \in Targets : SetTarget(target)
  \/ OnClick
  \/ \E tree \in RouterUrlTrees : EmitChange(tree)
  \/ \E created \in CreateUrlTreeOutcomes : ReceiveChange(created)
  \/ NgOnDestroy

SpecRouterLink == InitRouterLink /\ [][NextRouterLink]_vars

Recomputes == call.op \in {"routerLink", "changes"}

\* C18: an assignment of routerLink, and a change event received before
\* ngOnDestroy, recompute the state: with a tree from createUrlTree, href is
\* its serialization and isActive is whether the router's URL tree contains
\* it; with no tree, isActive is false and href is what it was.  In every
\* state isActive implies that the tree last computed was present and was
\* contained in the router's URL tree when it was computed, and no change
\* event is received after ngOnDestroy.
C18_RouterLinkStateFollowsLastTree ==
  /\ (Recomputes /\ call.created # Throw)
       => IF isPresent(call.created)
            THEN /\ directive.href = Router_serializeUrl(call.created)
                 /\ directive.isActive = Bool(ContainsFirst(urlTree.root, call.created.root))
          ELSE /\ directive.isActive = Bool(FALSE)
               /\ directive.href = call.hrefBefore
  /\ directive.isActive = Bool(TRUE)
       => /\ history.computed
          /\ isPresent(history.tree)
          /\ history.contained = Bool(TRUE)
  /\ call.op = "changes" => directive._subscription
  /\ ~directive._subscription => pending = 0

\* a change event found no tree after the link had been active: isActive
\* is false and href is still the serialization of the earlier tree
C18_Witness ==
  /\ call.op = "changes" /\ call.created = Null
  /\ directive.isActive = Bool(FALSE)
  /\ directive.href # Null /\ directive.href = call.hrefBefore
  /\ history.computed /\ history.tree = Null

\* C19: onClick calls router.navigate once, with the commands last assigned
\* to routerLink and the route segment, and returns false, exactly when
\* target is not a string or is '_self'; with any other string target it
\* returns true and does not call router.navigate.
C19_ClickNavigatesUnlessOtherTarget ==
  call.op = "onClick"
    => IF ~isString(directive.target)
            \/ directive.target = Str(<<"_", "s", "e", "l", "f">>)
         THEN /\ call.navigate = <<[commands |-> history.assigned,
                                    segment |-> directive._routeSegment]>>
              /\ result = Bool(FALSE)
       ELSE /\ call.navigate = <<>>
            /\ result = Bool(TRUE)

\* a click without a target, after commands have been assigned
C19_Witness ==
  /\ call.op = "onClick" /\ directive.target = Null
  /\ history.assigned = Cmd_main
  /\ Len(call.navigate) = 1 /\ call.navigate[1].commands = Cmd_main
  /\ result = Bool(FALSE)
====
